---- MODULE Spec2Model ----
(***************************************************************************)
(* A model of the CHIP-8 interpreter of chip8.go: the Chip8 struct, the    *)
(* constructor NewChip, the loader LoadROM, the executor Cycle and the     *)
(* program main that drives them.                                          *)
(*                                                                         *)
(* Spec    is the program main: NewChip, one LoadROM of the ROM file, then *)
(*         the endless loop of Cycle and PrintDisplay.                     *)
(* ApiSpec is a caller of the exported methods that issues LoadROM and     *)
(*         Cycle in any order on one Chip8.                                *)
(***************************************************************************)
EXTENDS Integers, Sequences, FiniteSets, TLC

VARIABLES
    registers,        \* [16]byte
    program_counter,  \* uint16
    index_register,   \* uint16
    stack,            \* [16]uint16
    delay_timer,      \* uint8
    sound_timer,      \* uint8
    memory,           \* [4096]byte
    display,          \* [32][64]int
    keypad,           \* [16]uint16
    console,          \* what fmt.Print has written to stdout, oldest first
    shown,            \* the grid PrintDisplay wrote to stdout last
    panicked,         \* the Go runtime stopped the process on an index out of range
    last_call,        \* the method call that produced this state
    display_before,   \* the display as that call found it
    nloads,           \* LoadROM calls made so far
    ncycles           \* Cycle calls made so far

chip == <<registers, program_counter, index_register, stack, delay_timer,
          sound_timer, memory, display, keypad>>

vars == <<registers, program_counter, index_register, stack, delay_timer,
          sound_timer, memory, display, keypad, console, shown, panicked,
          last_call, display_before, nloads, ncycles>>

----------------------------------------------------------------------------
(* Sizes of the Chip8 struct.                                              *)

NumRegisters == 16
StackSize == 16
MemSize == 4096
DisplayRows == 32
DisplayCols == 64
NumKeys == 16
FontsetSize == 80
StartAddress == 512
Uint16 == 65536
Uint8 == 256

(* Bounds of the exploration.                                              *)

MaxCycles == 6
MaxLoads == 2

----------------------------------------------------------------------------
(* Integer helpers for Go's bit operators.                                 *)

RECURSIVE Pow2(_)
Pow2(n) == IF n = 0 THEN 1 ELSE 2 * Pow2(n - 1)

RECURSIVE BitAnd(_, _)
BitAnd(a, b) ==
    IF a = 0 \/ b = 0 THEN 0
    ELSE (a % 2) * (b % 2) + 2 * BitAnd(a \div 2, b \div 2)

ShiftRight(val, bits) == val \div Pow2(bits)

\* GetNibbles: ((val & binary_and) >> bits)
GetNibbles(val, bits, binary_and) == ShiftRight(BitAnd(val, binary_and), bits)

----------------------------------------------------------------------------
(* NewChip                                                                 *)

fontset ==
    << 240, 144, 144, 144, 240,
        32,  96,  32,  32, 112,
       240,  16, 240, 128, 240,
       240,  16, 240,  16, 240,
       144, 144, 240,  16,  16,
       240, 128, 240,  16, 240,
       240, 128, 240, 144, 240,
       240,  16,  32,  64,  64,
       240, 144, 240, 144, 240,
       240, 144, 240,  16, 240,
       240, 144, 240, 144, 144,
       224, 144, 224, 144, 224,
       240, 128, 128, 128, 240,
       224, 144, 144, 144, 224,
       240, 128, 240, 128, 240,
       240, 128, 240, 128, 128 >>

BlankDisplay == [y \in 0..(DisplayRows - 1) |-> [x \in 0..(DisplayCols - 1) |-> 0]]

NewChipCall == [op |-> "NewChip"]

NewChip ==
    /\ registers = [r \in 0..(NumRegisters - 1) |-> 0]
    /\ program_counter = StartAddress
    /\ index_register = 0
    /\ stack = [s \in 0..(StackSize - 1) |-> 0]
    /\ delay_timer = 0
    /\ sound_timer = 0
    /\ memory = [a \in 0..(MemSize - 1) |->
                    IF a < FontsetSize THEN fontset[a + 1] ELSE 0]
    /\ display = BlankDisplay
    /\ keypad = [k \in 0..(NumKeys - 1) |-> 0]

Init ==
    /\ NewChip
    /\ console = << >>
    /\ shown = BlankDisplay
    /\ panicked = FALSE
    /\ last_call = NewChipCall
    /\ display_before = BlankDisplay
    /\ nloads = 0
    /\ ncycles = 0

----------------------------------------------------------------------------
(* LoadROM                                                                 *)

\* A file at the path given to LoadROM: unreadable, or readable with bytes.
Unreadable == [readable |-> FALSE, data |-> << >>]
File(bytes) == [readable |-> TRUE, data |-> bytes]

\* the size test of LoadROM
RomTooBig(mem_value, size) == (mem_value + size) >= MemSize

\* the copy loop of LoadROM: data[k] goes to memory[mem_value + k]
CopyRom(mem, mem_value, data) ==
    [a \in 0..(MemSize - 1) |->
        IF a >= mem_value /\ a < mem_value + Len(data)
        THEN data[a - mem_value + 1]
        ELSE mem[a]]

\* LoadROM(path) with the file found at path, and the bool it returned
LoadROMCall(file, ok) == [op |-> "LoadROM", file |-> file, ok |-> ok]

LoadROM(file) ==
    IF ~file.readable
    THEN /\ console' = Append(console, "Could not read file \n")
         /\ last_call' = LoadROMCall(file, FALSE)
         /\ UNCHANGED <<chip, panicked>>
    ELSE IF RomTooBig(program_counter, Len(file.data))
    THEN /\ console' = Append(console, "File size too big to fit into memory! \n")
         /\ last_call' = LoadROMCall(file, FALSE)
         /\ UNCHANGED <<chip, panicked>>
    ELSE /\ memory' = CopyRom(memory, program_counter, file.data)
         /\ last_call' = LoadROMCall(file, TRUE)
         /\ UNCHANGED <<registers, program_counter, index_register, stack,
                        delay_timer, sound_timer, display, keypad, console,
                        panicked>>

----------------------------------------------------------------------------
(* Cycle                                                                   *)

\* memory[program_counter] and memory[program_counter+1] index a [4096]byte
FetchInRange(pc) == pc < MemSize /\ (pc + 1) % Uint16 < MemSize

\* uint16(memory[pc])<<8 | uint16(memory[pc+1])
Fetch(mem, pc) == mem[pc] * 256 + mem[(pc + 1) % Uint16]

\* program_counter += 2
Advance(pc) == (pc + 2) % Uint16

\* ClearDisplay that blanks the first row only
ClearDisplay_FirstRow(disp) == [disp EXCEPT ![0] = [x \in 0..(DisplayCols - 1) |-> 0]]

\* case 0: chip.display = [32][64]int{}
ClearDisplay(disp) == BlankDisplay

\* JumpTarget that keeps the low byte NN only
JumpTarget_LowByte(opcode) == GetNibbles(opcode, 0, 255) % Uint16

\* case 1: uint16(GetNibbles(opcode, 0, 0x0FFF))
JumpTarget(opcode) == GetNibbles(opcode, 0, 4095) % Uint16

\* SetRegister that adds to the register, as case 7 does
SetRegister_Adds(regs, reg1, val) ==
    [regs EXCEPT ![reg1] = (regs[reg1] + (val % Uint8)) % Uint8]

\* case 6: registers[reg1] = byte(val)
SetRegister(regs, reg1, val) == [regs EXCEPT ![reg1] = val % Uint8]

\* AddRegister that reports the carry in V[F], as an 8XY4 would
AddRegister_Carry(regs, reg1, val) ==
    [regs EXCEPT ![reg1] = (regs[reg1] + (val % Uint8)) % Uint8,
                 ![15] = IF regs[reg1] + (val % Uint8) > 255 THEN 1 ELSE 0]

\* case 7: registers[reg1] += byte(val)
AddRegister(regs, reg1, val) ==
    [regs EXCEPT ![reg1] = (regs[reg1] + (val % Uint8)) % Uint8]

\* display[y][x] indexes a [32][64]int
InDisplay(y, x) == y >= 0 /\ y < DisplayRows /\ x >= 0 /\ x < DisplayCols

\* AtRightEdge that lets the last column pass
AtRightEdge_Late(x) == x > 63

\* "If you reach the right edge of the screen, stop drawing this row."
AtRightEdge(x) == x > 62

\* "Stop if you reach the bottom edge of the screen."
AtBottomEdge(y) == y > 30

\* The inner loop of case 13, from bit j down to bit 0 of one sprite row.
\* Yields the display, V[F] and x as the loop leaves them, the cells
\* <<y, x>> of the display it indexed, and whether an index was out of range
\* (which stops the process).
RECURSIVE DrawRow(_, _, _, _, _, _)
DrawRow(disp, vf, x, y, sprite_byte, j) ==
    IF ~InDisplay(y, x)
    THEN [display |-> disp, vf |-> vf, x |-> x, cells |-> {<<y, x>>},
          panic |-> TRUE]
    ELSE
    LET mask == Pow2(j)
        bit == ShiftRight(BitAnd(sprite_byte, mask), j)
        hit == bit = 1 /\ disp[y][x] = 1
        sprite2 == IF hit THEN BitAnd(sprite_byte, 255 - mask) ELSE sprite_byte
        vf2 == IF hit THEN 1 ELSE vf
        disp2 == IF hit THEN disp ELSE [disp EXCEPT ![y][x] = 1]
    IN  IF AtRightEdge(x)
        THEN [display |-> disp2, vf |-> vf2, x |-> x, cells |-> {<<y, x>>},
              panic |-> FALSE]
        ELSE IF j = 0
        THEN [display |-> disp2, vf |-> vf2, x |-> (x + 1) % Uint8,
              cells |-> {<<y, x>>}, panic |-> FALSE]
        ELSE LET rest == DrawRow(disp2, vf2, (x + 1) % Uint8, y, sprite2, j - 1)
             IN  [rest EXCEPT !.cells = @ \cup {<<y, x>>}]

\* The outer loop of case 13, from sprite row i on.  Reading the sprite byte
\* past the end of memory stops the process with what was drawn so far.
RECURSIVE DrawSprite(_, _, _, _, _, _, _, _)
DrawSprite(disp, vf, x, y, i, n_bytes, mem, ireg) ==
    IF i >= n_bytes
    THEN [display |-> disp, vf |-> vf, cells |-> {}, panic |-> FALSE]
    ELSE IF (ireg + i) % Uint16 >= MemSize
    THEN [display |-> disp, vf |-> vf, cells |-> {}, panic |-> TRUE]
    ELSE LET row == DrawRow(disp, vf, x, y, mem[(ireg + i) % Uint16], 7)
         IN  IF row.panic \/ AtBottomEdge((y + 1) % Uint8)
             THEN [display |-> row.display, vf |-> row.vf,
                   cells |-> row.cells, panic |-> row.panic]
             ELSE LET rest == DrawSprite(row.display, row.vf, row.x,
                                         (y + 1) % Uint8, i + 1, n_bytes,
                                         mem, ireg)
                  IN  [rest EXCEPT !.cells = @ \cup row.cells]

\* Cycle() running DXYN, with the display cells the draw loop indexed
DrawCall(opcode, ok, cells) ==
    [op |-> "Cycle", opcode |-> opcode, ok |-> ok, cells |-> cells]

\* Cycle() with the word it fetched (-1 when the fetch itself was out of
\* range) and whether it returned
CycleCall(opcode, ok) == [op |-> "Cycle", opcode |-> opcode, ok |-> ok]

Cycle ==
    IF ~FetchInRange(program_counter)
    THEN /\ panicked' = TRUE
         /\ last_call' = CycleCall(-1, FALSE)
         /\ UNCHANGED <<chip, console>>
    ELSE
    LET opcode == Fetch(memory, program_counter)
        opcode_nibble_1 == GetNibbles(opcode, 12, 61440)
    IN
    CASE opcode_nibble_1 = 0 ->
            /\ display' = ClearDisplay(display)
            /\ program_counter' = Advance(program_counter)
            /\ last_call' = CycleCall(opcode, TRUE)
            /\ UNCHANGED <<registers, index_register, stack, delay_timer,
                           sound_timer, memory, keypad, console, panicked>>
      [] opcode_nibble_1 = 1 ->
            /\ program_counter' = JumpTarget(opcode)
            /\ last_call' = CycleCall(opcode, TRUE)
            /\ UNCHANGED <<registers, index_register, stack, delay_timer,
                           sound_timer, memory, display, keypad, console,
                           panicked>>
      [] opcode_nibble_1 = 6 ->
            LET val == GetNibbles(opcode, 0, 255)
                reg1 == GetNibbles(opcode, 8, 3840)
            IN  /\ registers' = SetRegister(registers, reg1, val)
                /\ program_counter' = Advance(program_counter)
                /\ last_call' = CycleCall(opcode, TRUE)
                /\ UNCHANGED <<index_register, stack, delay_timer, sound_timer,
                               memory, display, keypad, console, panicked>>
      [] opcode_nibble_1 = 7 ->
            LET val == GetNibbles(opcode, 0, 255)
                reg1 == GetNibbles(opcode, 8, 3840)
            IN  /\ registers' = AddRegister(registers, reg1, val)
                /\ program_counter' = Advance(program_counter)
                /\ last_call' = CycleCall(opcode, TRUE)
                /\ UNCHANGED <<index_register, stack, delay_timer, sound_timer,
                               memory, display, keypad, console, panicked>>
      [] opcode_nibble_1 = 10 ->
            LET val == GetNibbles(opcode, 0, 4095)
            IN  /\ index_register' = val % Uint16
                /\ program_counter' = Advance(program_counter)
                /\ last_call' = CycleCall(opcode, TRUE)
                /\ UNCHANGED <<registers, stack, delay_timer, sound_timer,
                               memory, display, keypad, console, panicked>>
      [] opcode_nibble_1 = 13 ->
            LET reg1 == GetNibbles(opcode, 8, 3840)
                reg2 == GetNibbles(opcode, 4, 240)
                n_bytes == GetNibbles(opcode, 0, 15)
                x == BitAnd(registers[reg1], 63)
                y == BitAnd(registers[reg2], 31)
                drawn == DrawSprite(display, 0, x, y, 0, n_bytes, memory,
                                    index_register)
            IN  /\ display' = drawn.display
                /\ registers' = [registers EXCEPT ![15] = drawn.vf]
                /\ panicked' = drawn.panic
                /\ program_counter' = IF drawn.panic THEN program_counter
                                      ELSE Advance(program_counter)
                /\ last_call' = DrawCall(opcode, ~drawn.panic, drawn.cells)
                /\ UNCHANGED <<index_register, stack, delay_timer, sound_timer,
                               memory, keypad, console>>
      [] OTHER ->
            /\ console' = Append(console, "Invalid Opcode\n")
            /\ last_call' = CycleCall(opcode, TRUE)
            /\ UNCHANGED <<chip, panicked>>

----------------------------------------------------------------------------
(* ROM files.  A ROM is the byte sequence os.ReadFile returns; Cycle reads  *)
(* it as big-endian instruction words.                                     *)

Jump(nnn) == <<16 + (nnn \div 256), nnn % 256>>
Set(x, nn) == <<96 + x, nn>>
Add(x, nn) == <<112 + x, nn>>
SetI(nnn) == <<160 + (nnn \div 256), nnn % 256>>
Draw(x, y, n) == <<208 + x, (y * 16) + n>>
Word(w) == <<w \div 256, w % 256>>
Filled(size, b) == [k \in 1..size |-> b]

\* 1NNN to an even address, an odd address, the fontset, the last word of
\* memory and the last byte of memory
JumpTargets == {512, 513, 0, 4094, 4095}
JumpRoms == {Jump(nnn) : nnn \in JumpTargets}

\* 6FNN 6XNN 7XNN 7XNN: V[F] holds a value while V[X] is set and added to
SampleRegisters == {0, 7, 15}
SampleBytes == {0, 1, 200, 255}
SetAddRoms ==
    {Set(15, 9) \o Set(x, a) \o Add(x, b) \o Add(x, b) :
        x \in SampleRegisters, a \in SampleBytes, b \in SampleBytes}

\* 6XNN 7XNN on every register
AllRegisters == 0..(NumRegisters - 1)
RegisterRoms == {Set(x, a) \o Add(x, a) : x \in AllRegisters, a \in {77, 255}}

\* V0, V1 and I are set, the sprite is drawn twice and the program then
\* spins on a jump to itself; the sprite rows follow the code at 0x20C.
SpriteAddress == StartAddress + 12
SampleColumns == {0, 57, 60, 63, 70}
SampleRows == {0, 29, 31, 40}
SampleHeights == {0, 1, 2, 3, 15}
Sprites == {<<255, 255, 255>>, <<0, 129, 0>>, <<165, 15, 240>>}
DrawProgram(vx, vy, n, ireg, sprite) ==
    Set(0, vx) \o Set(1, vy) \o SetI(ireg) \o Draw(0, 1, n) \o Draw(0, 1, n)
        \o Jump(522) \o sprite
DrawRoms ==
    {DrawProgram(vx, vy, n, SpriteAddress, sprite) :
        vx \in SampleColumns, vy \in SampleRows, n \in SampleHeights,
        sprite \in Sprites}
    \cup {DrawProgram(3, 4, n, ireg, <<255>>) :
            n \in SampleHeights, ireg \in {0, 4094, 4095}}

\* words of classes Cycle has no case for, and class-0 words other than 00E0
OtherWords == {32788, 8704, 61450, 238, 224}
OtherRoms == {Set(0, 5) \o Set(1, 10) \o Word(w) : w \in OtherWords}

\* 00E0 60aa 61bb 8014: clear, V0 = a, V1 = b, V0 += V1
SampleAddends == {5, 10, 250}
SumProgram(a, b) == Word(224) \o Set(0, a) \o Set(1, b) \o Word(32788)
SumRoms == {SumProgram(a, b) : a \in SampleAddends, b \in SampleAddends}

\* the digit 0 of the fontset is drawn at (3, 4), then one more word runs:
\* 00E0, 00EE, 0000 or FX0A
AfterDrawWords == {224, 238, 0, 61450}
AfterDrawRoms ==
    {Set(0, 3) \o Set(1, 4) \o SetI(0) \o Draw(0, 1, 5) \o Word(w) :
        w \in AfterDrawWords}

\* a sprite whose second row lies past the end of memory, drawn where the
\* second row is inside the grid and where it is below the bottom edge
EdgeOfMemoryRoms == {DrawProgram(3, vy, 2, 4095, <<255>>) : vy \in {30, 31}}

\* ROMs around the largest size that fits between 0x200 and the end of memory
SampleSizes == {0, 3583, 3584, 3585}
SizedRoms == {Filled(size, 18) : size \in SampleSizes}

Roms ==
    JumpRoms \cup SetAddRoms \cup RegisterRoms \cup DrawRoms \cup OtherRoms
        \cup SumRoms \cup AfterDrawRoms \cup EdgeOfMemoryRoms \cup SizedRoms
Files == {Unreadable} \cup {File(rom) : rom \in Roms}

\* the files a caller of the methods loads, in any order
ApiRoms ==
    { Jump(0), Jump(80), Filled(3583, 18),
      DrawProgram(60, 30, 3, SpriteAddress, <<255, 255, 255>>),
      Set(15, 9) \o Set(7, 200) \o Add(7, 200) \o Word(32788) }
ApiFiles == {Unreadable} \cup {File(rom) : rom \in ApiRoms}

----------------------------------------------------------------------------
(* main: chip8 := NewChip(); chip8.LoadROM(path); for { Cycle; PrintDisplay } *)

MainLoadROM ==
    /\ nloads = 0
    /\ \E file \in Files : LoadROM(file)
    /\ display_before' = display
    /\ nloads' = nloads + 1
    /\ UNCHANGED <<shown, ncycles>>

\* One turn of the loop.  PrintDisplay runs when Cycle returns.
MainLoop ==
    /\ nloads = 1
    /\ ~panicked
    /\ ncycles < MaxCycles
    /\ Cycle
    /\ shown' = IF panicked' THEN shown ELSE display'
    /\ display_before' = display
    /\ ncycles' = ncycles + 1
    /\ UNCHANGED nloads

Next == MainLoadROM \/ MainLoop

Spec == Init /\ [][Next]_vars

----------------------------------------------------------------------------
(* A caller of the methods of one Chip8, in any order.                     *)

ApiLoadROM ==
    /\ ~panicked
    /\ nloads < MaxLoads
    /\ \E file \in ApiFiles : LoadROM(file)
    /\ display_before' = display
    /\ nloads' = nloads + 1
    /\ UNCHANGED <<shown, ncycles>>

ApiCycle ==
    /\ ~panicked
    /\ ncycles < MaxCycles
    /\ Cycle
    /\ display_before' = display
    /\ ncycles' = ncycles + 1
    /\ UNCHANGED <<shown, nloads>>

ApiNext == ApiLoadROM \/ ApiCycle

ApiSpec == Init /\ [][ApiNext]_vars

----------------------------------------------------------------------------
(* Properties.                                                             *)

InvalidOpcodeReported == \E k \in 1..Len(console) : console[k] = "Invalid Opcode\n"

\* The only faults the program can show: the runtime stopped it, or Cycle
\* printed its message.
Faulted == panicked \/ InvalidOpcodeReported

\* C1: in every reachable state that is not faulted, program_counter is even
\* and below 4096.
C1_PcEvenAndInMemory ==
    ~Faulted => (program_counter % 2 = 0 /\ program_counter < MemSize)

\* C2: once Cycle has fetched a word it does not recognise, the loop has
\* halted: no further Cycle is run.
C2_InvalidOpcodeHaltsLoop ==
    [][InvalidOpcodeReported => ncycles' = ncycles]_vars

\* The state is the one a LoadROM on a freshly created Chip8 returned in.
FreshLoadDone ==
    /\ last_call.op = "LoadROM"
    /\ nloads = 1
    /\ ncycles = 0
    /\ last_call.file.readable

\* C3: LoadROM of a readable ROM on a fresh Chip8 fails exactly when
\* 0x200 + len(ROM) > 4096; on success ROM byte k is at memory[0x200+k], on
\* failure every field is as NewChip left it.
C3_LoadFailsExactlyWhenTooLarge ==
    FreshLoadDone =>
        LET data == last_call.file.data IN
        /\ (~last_call.ok) <=> (512 + Len(data) > 4096)
        /\ last_call.ok =>
              \A k \in 0..(Len(data) - 1) : memory[512 + k] = data[k + 1]
        /\ (~last_call.ok) => NewChip

\* C4: memory[0..80) holds the fontset in every state reached by LoadROM and
\* Cycle calls in any order.
C4_FontsetNeverOverwritten ==
    \A a \in 0..79 : memory[a] = fontset[a + 1]

----------------------------------------------------------------------------
(* Properties of one Cycle, read off the step: the unprimed variables are  *)
(* the state Cycle was called in, the primed ones the state it left.       *)

CycleStep == last_call'.op = "Cycle" /\ ncycles' = ncycles + 1

\* the two bytes of the instruction word at program_counter, and its fields
OpHi == memory[program_counter]
OpLo == memory[program_counter + 1]
OpClass == OpHi \div 16
OpX == OpHi % 16
OpY == OpLo \div 16
OpN == OpLo % 16
OpNN == OpLo

\* Cycle ran the instruction of class c and returned
Executes(c) ==
    /\ CycleStep
    /\ program_counter + 1 < 4096
    /\ OpClass = c
    /\ last_call'.ok

\* DXYN: the origin, and bit c (most significant first) of sprite row r
OriginX == registers[OpX] % 64
OriginY == registers[OpY] % 32
SpriteBit(r, c) == (memory[index_register + r] \div (2 ^ (7 - c))) % 2
SpriteInMemory == index_register + OpN <= 4096
SpriteBitInGrid ==
    \E r \in 0..(OpN - 1), c \in 0..7 :
        OriginX + c <= 63 /\ OriginY + r <= 31 /\ SpriteBit(r, c) = 1

\* C5: DXYN on an all-off display leaves cell (x0+c, y0+r) on exactly when
\* bit c of memory[I+r] is 1, for the rows and columns inside the grid, and
\* every other cell off.
C5_DrawOnBlankDisplayShowsSprite ==
    [][(Executes(13) /\ display = BlankDisplay /\ SpriteInMemory) =>
        \A y \in 0..31, x \in 0..63 :
            display'[y][x] =
                IF \E r \in 0..(OpN - 1), c \in 0..7 :
                      x = OriginX + c /\ y = OriginY + r /\ SpriteBit(r, c) = 1
                THEN 1 ELSE 0]_vars

\* C6: the same DXYN run twice in a row (X and Y not F) puts the display
\* back as it was before the first draw, and the second draw ends with
\* VF = 1 when the sprite has a set bit inside the grid.
C6_DrawTwiceRestoresDisplay ==
    [][(/\ Executes(13)
        /\ last_call.op = "Cycle"
        /\ last_call.ok
        /\ last_call.opcode = OpHi * 256 + OpLo
        /\ OpX # 15
        /\ OpY # 15
        /\ SpriteInMemory) =>
            /\ display' = display_before
            /\ SpriteBitInGrid => registers'[15] = 1]_vars

Min(a, b) == IF a < b THEN a ELSE b

\* C7: DXYN changes no cell outside columns x0..min(x0+7, 63) and rows
\* y0..min(y0+N-1, 31).
C7_DrawStaysInSpriteBox ==
    [][(CycleStep /\ program_counter + 1 < 4096 /\ OpClass = 13) =>
        \A y \in 0..31, x \in 0..63 :
            display'[y][x] # display[y][x] =>
                /\ OriginX <= x /\ x <= Min(OriginX + 7, 63)
                /\ OriginY <= y /\ y <= Min(OriginY + OpN - 1, 31)]_vars

\* C8: after DXYN, VF = 1 if and only if a cell that was on before the
\* instruction is off after it, and VF = 0 otherwise.
C8_DrawFlagIsCollision ==
    [][Executes(13) =>
        registers'[15] =
            IF \E y \in 0..31, x \in 0..63 :
                  display[y][x] = 1 /\ display'[y][x] = 0
            THEN 1 ELSE 0]_vars

\* C9: 6XNN leaves register X equal to NN, advances PC by 2 and changes no
\* other register, nor I, memory, display, stack or timers.
C9_SetLoadsRegister ==
    [][Executes(6) =>
        /\ registers' = [r \in 0..15 |-> IF r = OpX THEN OpNN ELSE registers[r]]
        /\ program_counter' = program_counter + 2
        /\ UNCHANGED <<index_register, memory, display, stack, delay_timer,
                       sound_timer>>]_vars

\* A 6XNN with NN above 0 has just run on a register other than V0.
C9_Witness ==
    /\ last_call.op = "Cycle"
    /\ last_call.ok
    /\ last_call.opcode \div 4096 = 6
    /\ (last_call.opcode \div 256) % 16 = 7
    /\ last_call.opcode % 256 = 200
    /\ registers[7] = 200

\* C10: 7XNN leaves Vx = (Vx + NN) mod 256 and advances PC by 2; when X is
\* not F, VF keeps its value, also when the addition overflows.
C10_AddWrapsWithoutFlag ==
    [][Executes(7) =>
        /\ registers'[OpX] = (registers[OpX] + OpNN) % 256
        /\ program_counter' = program_counter + 2
        /\ OpX # 15 => registers'[15] = registers[15]]_vars

\* A 7XNN on a register other than VF has just overflowed (the sum is below
\* the addend) while VF held a value other than 0.
C10_Witness ==
    /\ last_call.op = "Cycle"
    /\ last_call.ok
    /\ last_call.opcode \div 4096 = 7
    /\ (last_call.opcode \div 256) % 16 # 15
    /\ registers[(last_call.opcode \div 256) % 16] < last_call.opcode % 256
    /\ registers[15] = 9

----------------------------------------------------------------------------
\* main loaded the program 00E0 60aa 61bb 8014 and ran four turns of the loop
SumProgramRun ==
    /\ nloads = 1
    /\ ncycles = 4
    /\ memory[512] = 0 /\ memory[513] = 224
    /\ memory[514] = 96
    /\ memory[516] = 97
    /\ memory[518] = 128 /\ memory[519] = 20

\* C11: the program 00E0 60aa 61bb 8014 run for four Cycles ends with
\* V0 = (a + b) mod 256, VF = 1 if a + b > 255 else 0, and PC = 0x208.
C11_SumProgramAddsRegisters ==
    SumProgramRun =>
        LET a == memory[515]
            b == memory[517]
        IN  /\ registers[0] = (a + b) % 256
            /\ registers[15] = IF a + b > 255 THEN 1 ELSE 0
            /\ program_counter = 520

----------------------------------------------------------------------------
\* the instruction word at program_counter
OpWord == OpHi * 256 + OpLo

\* C12: 00E0 leaves every cell of the display off and PC advanced by 2, with
\* registers, I, memory, stack and timers unchanged.
C12_ClearBlanksDisplay ==
    [][(Executes(0) /\ OpWord = 224) =>
        /\ \A y \in 0..31, x \in 0..63 : display'[y][x] = 0
        /\ program_counter' = program_counter + 2
        /\ UNCHANGED <<registers, index_register, memory, stack, delay_timer,
                       sound_timer>>]_vars

\* A 00E0 has just run on a display that had cells on below its first row.
C12_Witness ==
    /\ last_call.op = "Cycle"
    /\ last_call.ok
    /\ last_call.opcode = 224
    /\ \E y \in 1..31, x \in 0..63 : display_before[y][x] = 1
    /\ display = BlankDisplay

\* C13: a Cycle changes the display only when the fetched word is 00E0 or
\* DXYN; every other word leaves all cells as they were.
C13_OnlyClearAndDrawChangeDisplay ==
    [][(/\ CycleStep
        /\ program_counter + 1 < 4096
        /\ OpWord # 224
        /\ OpClass # 13) => display' = display]_vars

\* C14: a 00EE run with an empty stack (Cycle never pushes, so the stack is
\* empty in every state) faults instead of changing PC or any other state.
\* The other half of the claim, a 2NNN on a full stack, needs 16 stacked
\* return addresses, which no state has.
C14_ReturnOnEmptyStackFaults ==
    [][(CycleStep /\ program_counter + 1 < 4096 /\ OpWord = 238) =>
        (UNCHANGED chip /\ Faulted')]_vars

\* LoadROM returned false: one of its two messages is on the console
LoadFailureReported ==
    \E k \in 1..Len(console) :
        console[k] \in {"Could not read file \n",
                        "File size too big to fit into memory! \n"}

\* C15: after a failed load no Cycle is executed.
C15_NoCycleAfterFailedLoad ==
    LoadFailureReported => ncycles = 0

\* C16: a DXYN with a sprite row address I + r (0 <= r < N) at or past 4096
\* ends in a fault that halts the engine at that instruction.
C16_SpriteRowPastMemoryFaults ==
    [][(/\ CycleStep
        /\ program_counter + 1 < 4096
        /\ OpClass = 13
        /\ \E r \in 0..(OpN - 1) : index_register + r >= 4096) =>
            (panicked' /\ program_counter' = program_counter)]_vars

KeyPressed == \E k \in 0..15 : keypad[k] # 0

\* C17: FX0A with no key pressed leaves the engine suspended at the
\* instruction (nothing changes and no fault is raised); with a key k pressed
\* it sets Vx = k and goes on to the next instruction.
C17_KeyWaitSuspendsAndResumes ==
    [][(CycleStep /\ program_counter + 1 < 4096 /\ OpClass = 15 /\ OpLo = 10) =>
        IF KeyPressed
        THEN /\ \E k \in 0..15 : keypad[k] # 0 /\ registers'[OpX] = k
             /\ program_counter' = program_counter + 2
        ELSE UNCHANGED chip /\ ~Faulted']_vars

\* Nothing in the program writes a timer or the keypad, and nothing ticks.
TimersAndKeypadNeverWritten ==
    /\ delay_timer = 0
    /\ sound_timer = 0
    /\ ~KeyPressed

\* C19: 1NNN sets PC to exactly NNN and leaves registers, I, memory,
\* display, stack and timers unchanged.
C19_JumpSetsPc ==
    [][Executes(1) =>
        /\ program_counter' = (OpHi % 16) * 256 + OpLo
        /\ UNCHANGED <<registers, index_register, memory, display, stack,
                       delay_timer, sound_timer>>]_vars

\* A 1FFE has just run: PC is 0xFFE, not the address after the jump.
C19_Witness ==
    /\ last_call.op = "Cycle"
    /\ last_call.ok
    /\ last_call.opcode = 8190
    /\ program_counter = 4094

\* the last call was a Cycle that ran DXYN
DrawDone == last_call.op = "Cycle" /\ last_call.opcode \div 4096 = 13

\* C20: every display cell DXYN reads or writes has its row in 0..31 and its
\* column in 0..63.
C20_DrawIndexesInsideDisplay ==
    DrawDone =>
        \A c \in last_call.cells : c[1] \in 0..31 /\ c[2] \in 0..63

\* A DXYN has just drawn two successive rows in the last column, the second
\* of them in the row where the loop stops at the bottom edge.
C20_Witness ==
    /\ DrawDone
    /\ {<<29, 63>>, <<30, 63>>} \subseteq last_call.cells

====
